---- MODULE Spec2Model ----
(***************************************************************************)
(* Model of src/hmm.cc: Model::ReadModel, ExperimentData::ReadExperimentData *)
(* and HMM::Algorithms::FindMostProbableStateSequence (Viterbi decoding).   *)
(*                                                                         *)
(* Probabilities.  transitionProb and stateSymbolProb hold doubles.  They   *)
(* are modelled as natural numbers counting tenths (10 stands for 1.0, 5   *)
(* for 0.5).  A score of time step t is a product of t+1 transition and    *)
(* t+1 emission entries, so all scores compared with each other carry the  *)
(* same scale 100^(t+1) and integer comparison is the comparison of the    *)
(* real products.  The enumerated models use only 0, 0.5 and 1.0, whose    *)
(* products are exact in binary floating point; the chain model of the     *)
(* end-to-end scenario uses 0.9 and 0.1, where every comparison is between *)
(* a positive product and zero.                                            *)
(*                                                                         *)
(* Symbols.  symbolToInd is symbol[0] - 'a'; the inputs are the symbols of *)
(* the declared alphabet, so a symbol is represented by its index.         *)
(***************************************************************************)
EXTENDS Integers, Sequences, FiniteSets, TLC

VARIABLES
    pc,                  \* position of the running function
    stateNameToIndex,    \* Model::stateNameToIndex (std::map<string, size_t>)
    alphabetSize,        \* Model::alphabetSize
    transitionProb,      \* Model::transitionProb
    stateSymbolProb,     \* Model::stateSymbolProb
    timeStateSymbol,     \* ExperimentData::timeStateSymbol
    nstates,             \* ReadModel: local nstates
    idx,                 \* ReadModel / ReadExperimentData: loop index i
    count,               \* ReadModel: ntransitions, nemissions; ReadExperimentData: nsteps
    error,               \* the exception that left the function, or "none"
    declared,            \* history: the state names read by ReadModel, in order
    offending,           \* history: a forbidden transition or emission was read
    trace,               \* history: the observations read by ReadExperimentData
    sequenceProbability, \* FindMostProbableStateSequence: local table
    prevSeqState,        \* FindMostProbableStateSequence: local table
    t,                   \* FindMostProbableStateSequence: DP loop variable
    curState,            \* FindMostProbableStateSequence: local curState
    mostProbableSeq      \* FindMostProbableStateSequence: the returned vector

modelVars == <<stateNameToIndex, alphabetSize, transitionProb, stateSymbolProb>>
readVars == <<nstates, idx, count, error, declared, offending, trace>>
decodeVars == <<sequenceProbability, prevSeqState, t, curState, mostProbableSeq>>
vars == <<pc, modelVars, timeStateSymbol, readVars, decodeVars>>

----------------------------------------------------------------------------
(* Bounds of the model.                                                    *)

\* States of the exhaustively enumerated models and of ReadModel's inputs.
MaxStates == 3
\* Observations of an observation sequence.
MaxTime == 2
\* Transitions, and emissions, declared in an input of ReadModel.
MaxEntries == 2

\* Alphabet sizes an input of ReadModel declares.
AlphabetSizes == {1, 2}
\* State names an input can hold.
NamePool == {"START", "A", "END"}
\* Probabilities, in tenths.
TransValues == {0, 10}
EmitValues == {0, 10}
InputProbs == {5, 10}

----------------------------------------------------------------------------
(* Constants of the program.                                               *)

\* size_t(-1): the largest size_t, no state index.
HMM_UNDEFINED_STATE == -1

\* An empty std::map and an empty std::vector.
EmptyMap == [x \in {} |-> 0]
EmptyVector == [x \in {} |-> 0]

\* v.size() of a vector indexed from 0.
Size(v) == Cardinality(DOMAIN v)

\* vector<vector<T> >(rows, vector<T>(cols, value))
Filled(rows, cols, value) == [r \in 0..(rows - 1) |-> [c \in 0..(cols - 1) |-> value]]

----------------------------------------------------------------------------
(* FindMostProbableStateSequence and its auxiliary functions.              *)

\* std::get<2>(data.timeStateSymbol[step])
SymbolAt(step) == timeStateSymbol[step + 1][3]

\* Mutant of CalcNewStateProbability: the emission of the previous state.
CalcWithPrevEmission(stepNumber, prevState, cur, curSymbol, seqProb) ==
    LET prevProbability ==
            IF stepNumber = 0 /\ prevState = 0 THEN 1
            ELSE IF stepNumber = 0 /\ prevState # 0 THEN 0
            ELSE seqProb[stepNumber - 1][prevState]
    IN  prevProbability * transitionProb[prevState][cur] * stateSymbolProb[prevState][curSymbol]

CalcNewStateProbability(stepNumber, prevState, cur, curSymbol, seqProb) ==
    LET prevProbability ==
            IF stepNumber = 0 /\ prevState = 0 THEN 1
            ELSE IF stepNumber = 0 /\ prevState # 0 THEN 0
            ELSE seqProb[stepNumber - 1][prevState]
    IN  prevProbability * transitionProb[prevState][cur] * stateSymbolProb[cur][curSymbol]

\* Mutants of ReplacesBest: the last of equal candidates wins; a candidate
\* of probability zero never wins.
ReplacesBestOrEqual(curProb, bestProbValue) == curProb >= bestProbValue
ReplacesBestPositive(curProb, bestProbValue) == curProb > bestProbValue /\ curProb > 0

\* The test that replaces the incumbent best previous state.
ReplacesBest(curProb, bestProbValue) == curProb > bestProbValue

\* The loop over prevState, from prevState on, with the incumbent so far.
RECURSIVE ScanPrevStates(_, _, _, _, _, _, _)
ScanPrevStates(prevState, bestProbValue, bestPrevState, stepNumber, cur, curSymbol, seqProb) ==
    IF prevState < Size(transitionProb)
    THEN LET curProb == CalcNewStateProbability(stepNumber, prevState, cur, curSymbol, seqProb)
         IN  IF ReplacesBest(curProb, bestProbValue)
             THEN ScanPrevStates(prevState + 1, curProb, prevState,
                                 stepNumber, cur, curSymbol, seqProb)
             ELSE ScanPrevStates(prevState + 1, bestProbValue, bestPrevState,
                                 stepNumber, cur, curSymbol, seqProb)
    ELSE bestPrevState

FindBestTransitionSource(stepNumber, cur, curSymbol, seqProb) ==
    IF stepNumber = 0
    THEN 0
    ELSE ScanPrevStates(0, -1, HMM_UNDEFINED_STATE, stepNumber, cur, curSymbol, seqProb)

\* std::distance(begin, std::max_element(begin, end)): the scan from index
\* first on, largest being the first largest element so far.
RECURSIVE MaxElementFrom(_, _, _)
MaxElementFrom(row, first, largest) ==
    IF first < Size(row)
    THEN MaxElementFrom(row, first + 1, IF row[largest] < row[first] THEN first ELSE largest)
    ELSE largest

\* Mutant of MaxElement: the last largest element.
RECURSIVE LastMaxElementFrom(_, _, _)
LastMaxElementFrom(row, first, largest) ==
    IF first < Size(row)
    THEN LastMaxElementFrom(row, first + 1, IF row[largest] <= row[first] THEN first ELSE largest)
    ELSE largest
LastMaxElement(row) == LastMaxElementFrom(row, 1, 0)

MaxElement(row) == MaxElementFrom(row, 1, 0)

\* std::reverse
Reverse(seq) == [k \in 1..Len(seq) |-> seq[Len(seq) + 1 - k]]

\* The recovery loop and the push_back after it, from curStep on: the
\* vector in the order of the push_backs.
RECURSIVE CollectReversed(_, _, _)
CollectReversed(curStep, cur, seq) ==
    IF curStep > 0
    THEN LET prev == prevSeqState[curStep][cur]
         IN  CollectReversed(curStep - 1, prev, Append(seq, prev))
    ELSE Append(seq, cur)

\* The state before the DP loop: both tables allocated.
DecodeStart ==
    /\ pc = "dp"
    /\ sequenceProbability = Filled(Len(timeStateSymbol), Size(transitionProb), 0)
    /\ prevSeqState = Filled(Len(timeStateSymbol), Size(transitionProb), HMM_UNDEFINED_STATE)
    /\ t = 0
    /\ curState = 0
    /\ mostProbableSeq = <<>>

\* One iteration of the loop over t: the loop over curState fills row t.
\* A cell of row t is computed from row t - 1 only.  Were bestPrevState
\* HMM_UNDEFINED_STATE, CalcNewStateProbability would read transitionProb
\* out of bounds: the call crashes (outcome -1) or reads some value.
ViterbiStep ==
    /\ pc = "dp"
    /\ t < Len(timeStateSymbol)
    /\ LET curSymbol == SymbolAt(t)
           best(cur) == FindBestTransitionSource(t, cur, curSymbol, sequenceProbability)
           outOfBounds == \E cur \in DOMAIN transitionProb : best(cur) = HMM_UNDEFINED_STATE
       IN  \E outcome \in IF outOfBounds THEN {-1, 0, 1} ELSE {0} :
             /\ sequenceProbability' =
                   [sequenceProbability EXCEPT ![t] =
                       [cur \in 0..(Size(transitionProb) - 1) |->
                           IF best(cur) = HMM_UNDEFINED_STATE
                           THEN outcome
                           ELSE CalcNewStateProbability(t, best(cur), cur, curSymbol,
                                                        sequenceProbability)]]
             /\ prevSeqState' =
                   [prevSeqState EXCEPT ![t] =
                       [cur \in 0..(Size(transitionProb) - 1) |-> best(cur)]]
             /\ pc' = IF outcome = -1 THEN "crashed" ELSE pc
    /\ t' = t + 1
    /\ UNCHANGED <<modelVars, timeStateSymbol, readVars, curState, mostProbableSeq>>

\* The last state of the sequence, for a sequence of at least one step.
FindLastState ==
    /\ pc = "dp"
    /\ t = Len(timeStateSymbol)
    /\ Len(timeStateSymbol) > 0
    /\ curState' = MaxElement(sequenceProbability[Len(timeStateSymbol) - 1])
    /\ pc' = "recover"
    /\ UNCHANGED <<modelVars, timeStateSymbol, readVars,
                   sequenceProbability, prevSeqState, t, mostProbableSeq>>

\* The same for an empty sequence: curStep is -1 and sequenceProbability is
\* empty, so sequenceProbability[curStep] is read out of bounds.  The call
\* crashes, or max_element yields some index.
FindLastStateOutOfBounds ==
    /\ pc = "dp"
    /\ t = Len(timeStateSymbol)
    /\ Len(timeStateSymbol) = 0
    /\ \/ /\ pc' = "crashed"
          /\ UNCHANGED curState
       \/ /\ pc' = "recover"
          /\ curState' \in (0..(Size(transitionProb) - 1)) \cup {HMM_UNDEFINED_STATE}
    /\ UNCHANGED <<modelVars, timeStateSymbol, readVars,
                   sequenceProbability, prevSeqState, t, mostProbableSeq>>

\* The recovery loop, the last push_back and the reversal.
RecoverSequence ==
    /\ pc = "recover"
    /\ mostProbableSeq' = Reverse(CollectReversed(Len(timeStateSymbol) - 1, curState, <<>>))
    /\ curState' = mostProbableSeq'[1]
    /\ pc' = "done"
    /\ UNCHANGED <<modelVars, timeStateSymbol, readVars,
                   sequenceProbability, prevSeqState, t>>

----------------------------------------------------------------------------
(* The inputs of FindMostProbableStateSequence: models ReadModel builds    *)
(* and observation sequences ReadExperimentData builds.                    *)

InteriorNames == <<"A", "B", "C", "D">>
CanonNames(n) ==
    [k \in 1..n |-> IF k = 1 THEN "START" ELSE IF k = n THEN "END" ELSE InteriorNames[k - 1]]

\* The registry of n distinct declared names.
Registry(names) == [x \in {names[k] : k \in 1..Len(names)} |->
                       CHOOSE k \in 0..(Len(names) - 1) : names[k + 1] = x]

\* The transition cells and the emitting states an input may set.
FreeCells(n) == (0..(n - 2)) \X (1..(n - 1))
Emitting(n) == 1..(n - 2)

TransitionTable(n, g) ==
    [from \in 0..(n - 1) |-> [to \in 0..(n - 1) |->
        IF <<from, to>> \in DOMAIN g THEN g[<<from, to>>] ELSE 0]]
EmissionTable(n, m, h) ==
    [s \in 0..(n - 1) |-> [c \in 0..(m - 1) |->
        IF <<s, c>> \in DOMAIN h THEN h[<<s, c>>] ELSE 0]]

\* Observation sequences of the given length over an alphabet of m symbols;
\* the decoder reads the symbol only, the given state is START throughout.
Observations(len, m) ==
    {[k \in 1..len |-> <<k - 1, 0, f[k]>>] : f \in [1..len -> 0..(m - 1)]}

\* The tables with at most MaxEntries entries set.
Sparse(cells, values) ==
    {g \in [cells -> values] : Cardinality({c \in cells : g[c] # 0}) <= MaxEntries}

\* Every model of n states over two symbols that ReadModel builds from at
\* most MaxEntries transitions and MaxEntries emissions of probability 1.0.
EnumeratedModel(n) ==
    /\ alphabetSize = 2
    /\ stateNameToIndex = Registry(CanonNames(n))
    /\ transitionProb \in {TransitionTable(n, g) : g \in Sparse(FreeCells(n), TransValues)}
    /\ stateSymbolProb \in
          {EmissionTable(n, 2, h) : h \in Sparse(Emitting(n) \X (0..1), EmitValues)}

\* Four states START, A, B, END: both interior states reachable from START
\* with probability 0.5 or 1.0, any transitions between the interior states,
\* A emitting 'a' only or both symbols alike, B emitting 'b' only or both
\* symbols alike.
TwoInteriorModel ==
    /\ alphabetSize = 2
    /\ stateNameToIndex = Registry(CanonNames(4))
    /\ transitionProb \in
          {TransitionTable(4, g) :
              g \in {f \in [(0..2) \X (1..2) -> {0, 5, 10}] :
                         f[<<0, 1>>] # 0 /\ f[<<0, 2>>] # 0 /\ f[<<2, 2>>] = 0}}
    /\ stateSymbolProb \in
          {EmissionTable(4, 2, h) :
              h \in {f \in [(1..2) \X (0..1) -> {0, 5, 10}] :
                         /\ f[<<1, 0>>] + f[<<1, 1>>] = 10
                         /\ f[<<2, 0>>] + f[<<2, 1>>] = 10
                         /\ f[<<1, 0>>] # 0
                         /\ f[<<2, 1>>] # 0}}

\* START -> A -> END with A emitting 'a' with 0.9 and 'b' with 0.1.
ChainModel ==
    /\ alphabetSize = 2
    /\ stateNameToIndex = Registry(<<"START", "A", "END">>)
    /\ transitionProb = TransitionTable(3, (<<0, 1>> :> 10) @@ (<<1, 2>> :> 10))
    /\ stateSymbolProb = EmissionTable(3, 2, (<<1, 0>> :> 9) @@ (<<1, 1>> :> 1))

\* The locals of ReadModel and ReadExperimentData after both returned.
ReadDone ==
    /\ nstates = Size(transitionProb)
    /\ idx = 0
    /\ count = 0
    /\ error = "none"
    /\ declared = <<>>
    /\ offending = FALSE
    /\ trace = <<>>

Init ==
    /\ \/ \E n \in 2..MaxStates : EnumeratedModel(n)
       \/ TwoInteriorModel
       \/ ChainModel
    /\ \E len \in 0..MaxTime : timeStateSymbol \in Observations(len, alphabetSize)
    /\ ReadDone
    /\ DecodeStart

Next ==
    \/ ViterbiStep
    \/ FindLastState
    \/ FindLastStateOutOfBounds
    \/ RecoverSequence

Spec == Init /\ [][Next]_vars

----------------------------------------------------------------------------
(* Model::ReadModel.  The input is read item by item; each item is chosen  *)
(* when it is read.                                                        *)

\* m[key] = value on a std::map: the entry is created if absent.
MapPut(m, key, value) ==
    [x \in (DOMAIN m) \cup {key} |-> IF x = key THEN value ELSE m[x]]

\* The map after reading m[key] with operator[]: an absent key is inserted
\* with a value-initialized size_t.
MapTouch(m, key) == IF key \in DOMAIN m THEN m ELSE MapPut(m, key, 0)

\* Mutant of TransitionForbidden: the ending state is taken to be index nstates.
TransitionForbiddenOffByOne(fromInd, toInd, n) == fromInd = n \/ toInd = 0

\* The tests that throw std::domain_error.
TransitionForbidden(fromInd, toInd, n) == fromInd + 1 = n \/ toInd = 0
EmissionForbidden(stateInd, n) == stateInd = 0 \/ stateInd + 1 = n

\* The locals of FindMostProbableStateSequence while it does not run.
DecodeIdle ==
    /\ sequenceProbability = EmptyVector
    /\ prevSeqState = EmptyVector
    /\ t = 0
    /\ curState = 0
    /\ mostProbableSeq = <<>>

\* A default-constructed Model, ReadModel about to read the state count.
InitModel ==
    /\ pc = "read_nstates"
    /\ stateNameToIndex = EmptyMap
    /\ alphabetSize = 0
    /\ transitionProb = EmptyVector
    /\ stateSymbolProb = EmptyVector
    /\ timeStateSymbol = <<>>
    /\ nstates = 0
    /\ idx = 0
    /\ count = 0
    /\ error = "none"
    /\ declared = <<>>
    /\ offending = FALSE
    /\ trace = <<>>
    /\ DecodeIdle

ReadStateCount ==
    /\ pc = "read_nstates"
    /\ \E n \in 0..MaxStates : nstates' = n
    /\ idx' = 0
    /\ pc' = "read_names"
    /\ UNCHANGED <<modelVars, timeStateSymbol, count, error, declared, offending, trace,
                   decodeVars>>

\* One iteration of the loop over the state names.
ReadStateName ==
    /\ pc = "read_names"
    /\ idx < nstates
    /\ \E stateName \in NamePool :
          /\ stateNameToIndex' = MapPut(stateNameToIndex, stateName, idx)
          /\ declared' = Append(declared, stateName)
    /\ idx' = idx + 1
    /\ UNCHANGED <<pc, alphabetSize, transitionProb, stateSymbolProb, timeStateSymbol,
                   nstates, count, error, offending, trace, decodeVars>>

\* The alphabet size, the allocation of transitionProb, the transition count.
ReadAlphabet ==
    /\ pc = "read_names"
    /\ idx = nstates
    /\ \E size \in AlphabetSizes : alphabetSize' = size
    /\ transitionProb' = Filled(nstates, nstates, 0)
    /\ \E ntransitions \in 0..MaxEntries : count' = ntransitions
    /\ idx' = 0
    /\ pc' = "read_transitions"
    /\ UNCHANGED <<stateNameToIndex, stateSymbolProb, timeStateSymbol, nstates, error,
                   declared, offending, trace, decodeVars>>

\* One iteration of the loop over the transitions.
ReadTransition ==
    /\ pc = "read_transitions"
    /\ idx < count
    /\ \E stateName \in NamePool, targetStateName \in NamePool, prob \in InputProbs :
          LET touched == MapTouch(MapTouch(stateNameToIndex, stateName), targetStateName)
              fromInd == touched[stateName]
              toInd == touched[targetStateName]
          IN  /\ stateNameToIndex' = touched
              /\ offending' = (offending \/ fromInd = nstates - 1 \/ toInd = 0)
              /\ IF TransitionForbidden(fromInd, toInd, nstates)
                 THEN /\ error' = "domain_error"
                      /\ pc' = "failed"
                      /\ UNCHANGED <<transitionProb, idx>>
                 ELSE /\ transitionProb' = [transitionProb EXCEPT ![fromInd][toInd] = prob]
                      /\ idx' = idx + 1
                      /\ UNCHANGED <<error, pc>>
    /\ UNCHANGED <<alphabetSize, stateSymbolProb, timeStateSymbol, nstates, count,
                   declared, trace, decodeVars>>

\* The allocation of stateSymbolProb and the emission count.
ReadEmissionCount ==
    /\ pc = "read_transitions"
    /\ idx = count
    /\ stateSymbolProb' = Filled(nstates, alphabetSize, 0)
    /\ \E nemissions \in 0..MaxEntries : count' = nemissions
    /\ idx' = 0
    /\ pc' = "read_emissions"
    /\ UNCHANGED <<stateNameToIndex, alphabetSize, transitionProb, timeStateSymbol, nstates,
                   error, declared, offending, trace, decodeVars>>

\* One iteration of the loop over the emissions; the symbol is one of the
\* declared alphabet.
ReadEmission ==
    /\ pc = "read_emissions"
    /\ idx < count
    /\ \E stateName \in NamePool, symbolInd \in 0..(alphabetSize - 1), prob \in InputProbs :
          LET touched == MapTouch(stateNameToIndex, stateName)
              stateInd == touched[stateName]
          IN  /\ stateNameToIndex' = touched
              /\ offending' = (offending \/ stateInd = 0 \/ stateInd = nstates - 1)
              /\ IF EmissionForbidden(stateInd, nstates)
                 THEN /\ error' = "domain_error"
                      /\ pc' = "failed"
                      /\ UNCHANGED <<stateSymbolProb, idx>>
                 ELSE /\ stateSymbolProb' = [stateSymbolProb EXCEPT ![stateInd][symbolInd] = prob]
                      /\ idx' = idx + 1
                      /\ UNCHANGED <<error, pc>>
    /\ UNCHANGED <<alphabetSize, transitionProb, timeStateSymbol, nstates, count,
                   declared, trace, decodeVars>>

\* ReadModel returns.
ReadModelReturns ==
    /\ pc = "read_emissions"
    /\ idx = count
    /\ pc' = "built"
    /\ UNCHANGED <<modelVars, timeStateSymbol, readVars, decodeVars>>

NextModel ==
    \/ ReadStateCount
    \/ ReadStateName
    \/ ReadAlphabet
    \/ ReadTransition
    \/ ReadEmissionCount
    \/ ReadEmission
    \/ ReadModelReturns

SpecModel == InitModel /\ [][NextModel]_vars

----------------------------------------------------------------------------
(* ExperimentData::ReadExperimentData, on a Model of n declared states.    *)

\* Mutant of Resolve: operator[] in place of at().
ResolveWithInsert(m, stateName) ==
    [found |-> TRUE, map |-> MapTouch(m, stateName), index |-> MapTouch(m, stateName)[stateName]]

\* model.stateNameToIndex.at(stateName): throws std::out_of_range for an
\* absent name and leaves the map as it is.
Resolve(m, stateName) ==
    [found |-> stateName \in DOMAIN m,
     map |-> m,
     index |-> IF stateName \in DOMAIN m THEN m[stateName] ELSE 0]

DeclaredNames(n) == IF n = 1 THEN <<"START">> ELSE CanonNames(n)

InitData ==
    /\ pc = "read_nsteps"
    /\ \E n \in 0..MaxStates :
          /\ stateNameToIndex = Registry(DeclaredNames(n))
          /\ transitionProb = Filled(n, n, 0)
          /\ \E size \in AlphabetSizes :
                /\ alphabetSize = size
                /\ stateSymbolProb = Filled(n, size, 0)
    /\ timeStateSymbol = <<>>
    /\ ReadDone
    /\ DecodeIdle

ReadStepCount ==
    /\ pc = "read_nsteps"
    /\ \E nsteps \in 0..MaxTime : count' = nsteps
    /\ idx' = 0
    /\ pc' = "read_steps"
    /\ UNCHANGED <<modelVars, timeStateSymbol, nstates, error, declared, offending, trace,
                   decodeVars>>

\* One iteration of the loop over the observations.
ReadObservation ==
    /\ pc = "read_steps"
    /\ idx < count
    /\ \E stepNumber \in 0..(MaxTime - 1), stateName \in NamePool \cup {"B"},
          symbolInd \in 0..(alphabetSize - 1) :
          LET resolved == Resolve(stateNameToIndex, stateName)
          IN  /\ trace' = Append(trace, <<stepNumber, stateName, symbolInd>>)
              /\ stateNameToIndex' = resolved.map
              /\ IF resolved.found
                 THEN /\ timeStateSymbol' =
                            Append(timeStateSymbol, <<stepNumber, resolved.index, symbolInd>>)
                      /\ idx' = idx + 1
                      /\ UNCHANGED <<error, pc>>
                 ELSE /\ error' = "out_of_range"
                      /\ pc' = "failed"
                      /\ UNCHANGED <<timeStateSymbol, idx>>
    /\ UNCHANGED <<alphabetSize, transitionProb, stateSymbolProb, nstates, count,
                   declared, offending, decodeVars>>

\* ReadExperimentData returns.
ReadExperimentDataReturns ==
    /\ pc = "read_steps"
    /\ idx = count
    /\ pc' = "data_read"
    /\ UNCHANGED <<modelVars, timeStateSymbol, readVars, decodeVars>>

NextData ==
    \/ ReadStepCount
    \/ ReadObservation
    \/ ReadExperimentDataReturns

SpecData == InitData /\ [][NextData]_vars

----------------------------------------------------------------------------
(* Properties of FindMostProbableStateSequence, under Spec.                *)

States == 0..(Size(transitionProb) - 1)
maxtime == Len(timeStateSymbol)

\* Joint probability of the first k + 1 states of path (a function from
\* time steps to states) and the symbols observed at steps 0..k, START
\* having probability 1.
RECURSIVE JointProbability(_, _)
JointProbability(path, k) ==
    IF k = 0
    THEN 1 * transitionProb[0][path[0]] * stateSymbolProb[path[0]][SymbolAt(0)]
    ELSE JointProbability(path, k - 1)
             * transitionProb[path[k - 1]][path[k]] * stateSymbolProb[path[k]][SymbolAt(k)]

Paths(len) == [0..(len - 1) -> States]
\* The paths over steps 0..r that end in state s.
PathsEndingIn(r, s) == {[k \in 0..r |-> IF k = r THEN s ELSE q[k]] : q \in Paths(r)}
Maximum(S) == CHOOSE x \in S : \A y \in S : y <= x
Minimum(S) == CHOOSE x \in S : \A y \in S : x <= y

\* The score of prev as predecessor of cur at step r > 0.
Candidate(r, prev, cur) ==
    sequenceProbability[r - 1][prev] * transitionProb[prev][cur]
        * stateSymbolProb[cur][SymbolAt(r)]

\* The returned vector as a path: element k of the vector is the state of step k.
Returned == [k \in 0..(Len(mostProbableSeq) - 1) |-> mostProbableSeq[k + 1]]

\* C1: for maxtime >= 1 the returned sequence is a most probable state path:
\* its joint probability is the maximum over all paths of length maxtime.
C1_ReturnsMostProbablePath ==
    (pc = "done" /\ maxtime >= 1) =>
        /\ Len(mostProbableSeq) = maxtime
        /\ \A k \in 1..maxtime : mostProbableSeq[k] \in States
        /\ JointProbability(Returned, maxtime - 1)
               = Maximum({JointProbability(p, maxtime - 1) : p \in Paths(maxtime)})

\* The chain START -> A -> END of the end-to-end scenario, observed 'a', 'a'.
ChainCase ==
    /\ ChainModel
    /\ maxtime = 2
    /\ SymbolAt(0) = 0
    /\ SymbolAt(1) = 0

\* C2 as stated: the chain model decodes the observations 'a', 'a' to [A, A].
C2_ChainDecodesToAA == (ChainCase /\ pc = "done") => mostProbableSeq = <<1, 1>>

\* C2 as amended: the chain model decodes the observations 'a', 'a' to
\* [START, START]: transitionProb[A][A] is 0, every score of step 1 is 0, and
\* the first state wins every tie.
C2_ChainDecodesToStartStart == (ChainCase /\ pc = "done") => mostProbableSeq = <<0, 0>>
C2_Witness == ChainCase /\ pc = "done" /\ sequenceProbability[0][1] = 90

\* C3: the returned sequence has as many elements as there are time steps.
C3_LengthIsMaxtime == pc = "done" => Len(mostProbableSeq) = maxtime

\* The predecessors of cur with the largest score at step r.
BestPredecessors(r, cur) ==
    {prev \in States : \A other \in States : Candidate(r, other, cur) <= Candidate(r, prev, cur)}
\* The states with the largest probability at the last step.
BestLastStates ==
    {s \in States : \A other \in States :
        sequenceProbability[maxtime - 1][other] <= sequenceProbability[maxtime - 1][s]}

\* C6: at every step r > 0 the recorded predecessor of every state is the
\* lowest-indexed predecessor of maximal score, and the state the recovery
\* starts from is the lowest-indexed state of maximal probability at the
\* last step.
C6_TieBreakLowestIndex ==
    /\ \A r \in 1..(t - 1) : \A cur \in States :
          pc # "crashed" => prevSeqState[r][cur] = Minimum(BestPredecessors(r, cur))
    /\ (pc = "recover" /\ maxtime >= 1) => curState = Minimum(BestLastStates)
\* Two predecessors tie with a positive score, and two last states tie with
\* a positive probability.
C6_Witness ==
    /\ pc = "recover"
    /\ maxtime >= 2
    /\ \E r \in 1..(maxtime - 1) : \E cur \in States :
          /\ Cardinality(BestPredecessors(r, cur)) >= 2
          /\ Candidate(r, prevSeqState[r][cur], cur) > 0
    /\ Cardinality(BestLastStates) >= 2
    /\ sequenceProbability[maxtime - 1][curState] > 0

\* The score of s as the only state of a one-step sequence.
FirstStepScore(s) == transitionProb[0][s] * stateSymbolProb[s][SymbolAt(0)]

\* C7: for a one-step sequence the predecessor of every state is START and
\* the result is the lowest-indexed state maximizing
\* transitionProb[0][s] * stateSymbolProb[s][symbol].
C7_SingleStep ==
    /\ (maxtime = 1 /\ t = 1) => \A s \in States : prevSeqState[0][s] = 0
    /\ (maxtime = 1 /\ pc = "done") =>
          mostProbableSeq =
              <<Minimum({s \in States : \A other \in States :
                            FirstStepScore(other) <= FirstStepScore(s)})>>
\* A one-step sequence decoded to an interior state, two states tying.
C7_Witness ==
    /\ maxtime = 1
    /\ pc = "done"
    /\ FirstStepScore(mostProbableSeq[1]) > 0
    /\ \E s \in States : s # mostProbableSeq[1] /\ FirstStepScore(s) = FirstStepScore(mostProbableSeq[1])

\* C8: after the DP loop sequenceProbability[r][s] is the largest joint
\* probability of a path over steps 0..r ending in s, and for r > 0
\* prevSeqState[r][s] is a predecessor achieving it.
C8_TablesHoldBestPrefixes ==
    (t = maxtime /\ pc # "crashed") =>
        \A r \in 0..(maxtime - 1) : \A s \in States :
            /\ sequenceProbability[r][s]
                  = Maximum({JointProbability(p, r) : p \in PathsEndingIn(r, s)})
            /\ r > 0 =>
                  /\ prevSeqState[r][s] \in States
                  /\ sequenceProbability[r][s] = Candidate(r, prevSeqState[r][s], s)
\* The loop is over, two paths of different positive probability end in
\* the same state at the last step.
C8_Witness ==
    /\ t = maxtime
    /\ pc = "dp"
    /\ maxtime >= 2
    /\ \E s \in States : \E p \in PathsEndingIn(maxtime - 1, s) :
          /\ JointProbability(p, maxtime - 1) > 0
          /\ JointProbability(p, maxtime - 1) < sequenceProbability[maxtime - 1][s]

\* C10: every back-pointer the DP loop writes and every element of the
\* returned sequence is a state index.
C10_NoUndefinedState ==
    /\ \A r \in 0..(t - 1) : \A s \in States : prevSeqState[r][s] \in States
    /\ (pc = "done" /\ maxtime >= 1) => \A k \in 1..Len(mostProbableSeq) : mostProbableSeq[k] \in States
\* A sequence of two steps is decoded, every score of the last step being 0.
C10_Witness ==
    /\ pc = "done"
    /\ maxtime >= 2
    /\ \A s \in States : sequenceProbability[maxtime - 1][s] = 0

----------------------------------------------------------------------------
(* Properties of ReadModel, under SpecModel.                               *)

AllZero(row) == \A c \in DOMAIN row : row[c] = 0

\* C4: ReadModel fails with a domain error whenever it reads a transition
\* from END, a transition to START or an emission of START or END, and the
\* forbidden entries are never written: row nstates - 1 and column 0 of
\* transitionProb and rows 0 and nstates - 1 of stateSymbolProb stay zero.
C4_ForbiddenEntriesRejected ==
    /\ offending => (pc = "failed" /\ error = "domain_error")
    /\ pc = "built" => ~offending
    /\ \A from \in DOMAIN transitionProb :
          /\ transitionProb[from][0] = 0
          /\ from = nstates - 1 => AllZero(transitionProb[from])
    /\ \A s \in DOMAIN stateSymbolProb :
          (s = 0 \/ s = nstates - 1) => AllZero(stateSymbolProb[s])
\* ReadModel wrote a transition and then failed on a forbidden entry.
C4_Witness ==
    /\ pc = "failed"
    /\ offending
    /\ \E from \in DOMAIN transitionProb : ~AllZero(transitionProb[from])

\* The position, from 0, at which a declared name was first seen.
FirstSeen(name) == Minimum({k \in 1..Len(declared) : declared[k] = name}) - 1

\* C9: after a successful ReadModel stateNameToIndex is a bijection between
\* the registered names and 0..nstates-1, each declared name mapping to the
\* position at which it was first seen.
C9_RegistryIsBijection ==
    pc = "built" =>
        /\ {stateNameToIndex[x] : x \in DOMAIN stateNameToIndex} = 0..(nstates - 1)
        /\ \A x, y \in DOMAIN stateNameToIndex :
              stateNameToIndex[x] = stateNameToIndex[y] => x = y
        /\ \A k \in 1..Len(declared) : stateNameToIndex[declared[k]] = FirstSeen(declared[k])

----------------------------------------------------------------------------
(* Properties of ReadExperimentData, under SpecData.                       *)

\* The tuple ReadExperimentData is to append for an observation.
Expected(observation) ==
    <<observation[1], stateNameToIndex[observation[2]], observation[3]>>

AbsentNameRead == \E k \in 1..Len(trace) : trace[k][2] \notin DOMAIN stateNameToIndex

C5_StateInvariant ==
    /\ error \in {"none", "out_of_range"}
    /\ AbsentNameRead <=> (pc = "failed" /\ error = "out_of_range")
    /\ ~AbsentNameRead =>
          /\ Len(timeStateSymbol) = Len(trace)
          /\ \A k \in 1..Len(trace) : timeStateSymbol[k] = Expected(trace[k])
    /\ pc = "data_read" => Len(timeStateSymbol) = count

\* C5: ReadExperimentData fails with out_of_range, not domain_error, when an
\* observation names a state absent from the registry; otherwise it appends
\* one (stepNumber, stateIndex, symbolIndex) tuple per observation, in input
\* order, stateIndex being the registry index of the name; and it never
\* modifies the Model.
C5_LookupErrorOrOneTuplePerObservation ==
    /\ []C5_StateInvariant
    /\ [][modelVars' = modelVars]_vars
\* An observation was appended and a later one names the state A, absent
\* from the registry: ReadExperimentData failed.
C5_Witness ==
    /\ pc = "failed"
    /\ error = "out_of_range"
    /\ Len(timeStateSymbol) >= 1
    /\ trace[Len(trace)][2] = "A"
    /\ "A" \notin DOMAIN stateNameToIndex

====
